---- MODULE Spec2Model ----
(***************************************************************************)
(* DomainServerAcmeClient (domain-server/src/DomainServerAcmeClient.cpp):   *)
(* the ACME certificate life cycle of the domain server, as a state        *)
(* machine.  One object lives on one Qt event loop; every action below is  *)
(* one run-to-completion handler of that loop (a timer slot, an HTTP       *)
(* request, a completion callback of the ACME library) or one step of the  *)
(* clock.                                                                  *)
(*                                                                         *)
(* Time is counted in ticks; Day is the number of ticks in 24 h.  A file   *)
(* content is a number: Absent, Bad (bytes that do not parse), Empty, or   *)
(* n > 0, the PEM of the certificate (or of its private key) whose         *)
(* notAfter is n.                                                          *)
(***************************************************************************)
EXTENDS Integers, Sequences, FiniteSets, TLC

\* ---------------------------------------------------------------- bounds

\* the clock runs from 0 to MaxTime
MaxTime == 3
\* generateCertificate calls over one run
MaxCycles == 2
\* HTTP-01 challenges the CA hands out in one order
MaxChallenges == 2
\* POST /acme/update requests over one run
MaxRequests == 2
\* PUT and DELETE requests on the file routes over one run
MaxFileRequests == 1

\* ------------------------------------------------------------- constants

\* 24h, in ticks
Day == 2
\* QFile::exists(path) is false
Absent == -2
\* file content that getExpiryOrError() cannot parse
Bad == -1
\* file content of length zero: std::string::empty()
Empty == 0
\* challengeHandler == nullptr
NoHandler == 0
\* a key the json object does not hold (expiry, renewal)
NoValue == -1

\* lifetimes of the certificates the CA issues, in ticks
Lifetimes == {1, 4}
\* the certificate found on disk at start-up, if any: none, one that has
\* (all but) expired, one with two days left, one with 90 days left
InitialCerts == {Absent, 1, 4, 90 * Day}
\* outcomes of opening the account key file: fine, not writable, not readable
KeyIO == {"ok", "key-write", "key-read"}
\* outcomes of writeAll: complete, open() failed, short write
WriteIO == {"ok", "open", "short"}

\* an account key path that the settings may give, and the one used when
\* they give none
ConfiguredAccountKeyPath == "account_key.pem"
DefaultAccountKeyPath == "acme_account_key.pem"

VARIABLES
    status,            \* nlohmann::json status
    renewalTimer,      \* QTimer renewalTimer (single shot)
    updateCheckTimer,  \* QTimer updateCheckTimer: the tick it is due at
    expiry,            \* system_clock::time_point expiry
    challengeHandler,  \* std::unique_ptr<AcmeChallengeHandler>: NoHandler or the cycle that made it
    selfCheckUrls,     \* std::vector<std::string> selfCheckUrls
    fs,                \* the files: cert, key, accountKey, authorities, the file of no name, and the permissions of the two keys
    cycles,            \* every generateCertificate call with its continuation chain
    fileEmit,          \* who emitted certificateUpdated for the files as they are on disk
    now,               \* system_clock::now()
    enabled,           \* settings: acme.enable_client
    http,              \* the last response of handleAuthenticatedHTTPRequest
    requests,          \* the requests handled so far, by operation
    crashed,           \* the process has died in undefined behaviour
    accountKeyPath,    \* settings: acme.account_key_path
    challengeFiles,    \* an AcmeHttpChallengeFiles: challengePaths, the disk under its directories, what its destructor did
    socket,            \* a WebRTCSocket: _lastErrorType, _lastErrorString, _receivedQueue, and its last call
    store              \* a writeCertificate call and the readCertificate call after it

vars == <<status, renewalTimer, updateCheckTimer, expiry, challengeHandler, selfCheckUrls,
          fs, cycles, fileEmit, now, enabled, http, requests, crashed, accountKeyPath,
          challengeFiles, socket, store>>

\* the object and what its methods read, as one value
Self == [status |-> status, renewalTimer |-> renewalTimer, expiry |-> expiry,
         challengeHandler |-> challengeHandler, selfCheckUrls |-> selfCheckUrls,
         fs |-> fs, cycles |-> cycles, fileEmit |-> fileEmit,
         now |-> now, enabled |-> enabled]

\* ------------------------------------------------ AcmeHttpChallengeFiles
\* addChallenge calls on one handler at most
MaxChallengeFiles == 3

\* a challenge path is <<directory, file name>>
ChallengeDirs == {1, 2}
ChallengePaths == ChallengeDirs \X {1, 2}

\* a handler after construction, on a disk with none of its directories:
\* whole and partial are the challenge files on disk, dirs the directories,
\* log what the destructor has attempted, warnings how often it has warned
NewChallengeFiles ==
    [challengePaths |-> <<>>, whole |-> {}, partial |-> {}, dirs |-> {},
     destroyed |-> FALSE, log |-> <<>>, warnings |-> 0]

\* AcmeHttpChallengeFiles::addChallenge: mkpath tells whether the directory
\* could be made, io what writeAll did
addChallenge(h, path, mkpath, io) ==
    IF ~mkpath THEN h
    ELSE LET made == [h EXCEPT !.dirs = @ \cup {path[1]}]
         IN  CASE io = "ok"    -> [made EXCEPT !.whole = @ \cup {path},
                                                !.partial = @ \ {path},
                                                !.challengePaths = Append(@, path)]
               [] io = "short" -> [made EXCEPT !.partial = @ \cup {path},
                                                !.whole = @ \ {path}]
               [] OTHER        -> made

\* QFile(challengePath).remove(), with a warning when it fails
removeChallenge(h, path, failing) ==
    LET tried == [h EXCEPT !.log = Append(@, <<"remove", path>>)]
    IN  IF path \in (h.whole \cup h.partial) /\ path \notin failing
        THEN [tried EXCEPT !.whole = @ \ {path}, !.partial = @ \ {path}]
        ELSE [tried EXCEPT !.warnings = @ + 1]

\* QDir(challengeDir).rmdir("."), with a warning when it fails; a directory
\* that holds a file cannot be removed
removeDir(h, dir, failing) ==
    LET tried == [h EXCEPT !.log = Append(@, <<"rmdir", dir>>)]
    IN  IF /\ dir \in h.dirs
           /\ dir \notin failing
           /\ \A path \in h.whole \cup h.partial : path[1] # dir
        THEN [tried EXCEPT !.dirs = @ \ {dir}]
        ELSE [tried EXCEPT !.warnings = @ + 1]

\* the first loop of the destructor, from the k-th path on
RECURSIVE removeChallenges(_, _, _)
removeChallenges(h, k, failing) ==
    IF k > Len(h.challengePaths) THEN h
    ELSE removeChallenges(removeChallenge(h, h.challengePaths[k], failing), k + 1, failing)

\* the second loop of the destructor, over the std::set challengeDirs
RECURSIVE removeDirs(_, _, _)
removeDirs(h, challengeDirs, failing) ==
    IF challengeDirs = {} THEN h
    ELSE LET dir == CHOOSE d \in challengeDirs : \A e \in challengeDirs : d <= e
         IN  removeDirs(removeDir(h, dir, failing), challengeDirs \ {dir}, failing)

\* a destructor that leaves the directories alone once a file could not be
\* removed
destroyChallengeFilesGivingUp(h, failingFiles, failingDirs) ==
    LET challengeDirs == {h.challengePaths[k][1] : k \in DOMAIN h.challengePaths}
        filesDone == removeChallenges(h, 1, failingFiles)
    IN  IF filesDone.warnings > h.warnings
        THEN [filesDone EXCEPT !.destroyed = TRUE]
        ELSE [removeDirs(filesDone, challengeDirs, failingDirs) EXCEPT !.destroyed = TRUE]

\* AcmeHttpChallengeFiles::~AcmeHttpChallengeFiles: failingFiles and
\* failingDirs are the removals the file system refuses
destroyChallengeFiles(h, failingFiles, failingDirs) ==
    LET challengeDirs == {h.challengePaths[k][1] : k \in DOMAIN h.challengePaths}
        filesDone == removeChallenges(h, 1, failingFiles)
    IN  [removeDirs(filesDone, challengeDirs, failingDirs) EXCEPT !.destroyed = TRUE]

\* ------------------------------------------------ WebRTCSocket
\* datagrams queued in a socket at most
MaxQueue == 2

\* QAbstractSocket::SocketError values the socket uses; SocketError() is the
\* cleared one
NoSocketError == "SocketError()"
UnknownSocketError == "UnknownSocketError"
UnsupportedSocketOperationError == "UnsupportedSocketOperationError"

\* messages handed to a socket at most
MaxReceived == 3

\* the arguments of a call that takes none
NoArguments == [data |-> FALSE, maxSize |-> 0, port |-> FALSE]

\* a call that has not been made: what it was given, what it returned, and
\* what it stored through the pointers data and port
NoCall == [op |-> "none", given |-> NoArguments, returned |-> 0, data |-> <<>>, port |-> 0]

\* a socket after construction; received and reads are its history: every
\* message it was handed, and how many calls of readDatagram took one
NewSocket == [lastErrorType |-> NoSocketError, lastErrorString |-> "",
              receivedQueue |-> <<>>, call |-> NoCall,
              received |-> <<>>, reads |-> 0]

\* WebRTCSocket::setError(errorType, errorString)
socketSetError(sock, errorType, errorString) ==
    [sock EXCEPT !.lastErrorType = errorType]

\* WebRTCSocket::clearError()
clearError(sock) ==
    [sock EXCEPT !.lastErrorType = NoSocketError, !.lastErrorString = ""]

\* WebRTCSocket::error() and errorString()
error(sock) == sock.lastErrorType
errorString(sock) == sock.lastErrorString

\* the socket after a call of op that returned a value
returned(sock, op, value) ==
    [sock EXCEPT !.call = [NoCall EXCEPT !.op = op, !.returned = value]]

\* std::min
min(a, b) == IF a < b THEN a ELSE b

\* WebRTCSocket::hasPendingDatagrams()
hasPendingDatagrams(sock) == Len(sock.receivedQueue) > 0

\* WebRTCSocket::pendingDatagramSize()
pendingDatagramSize(sock) ==
    IF Len(sock.receivedQueue) > 0 THEN Len(Head(sock.receivedQueue)[2]) ELSE -1

\* a readDatagram that returns the head of the queue and leaves it there
readDatagramPeeking(sock, data, maxSize, port) ==
    LET s == clearError(sock)
    IN  IF Len(s.receivedQueue) > 0
        THEN LET datagram == Head(s.receivedQueue)
                 length == min(Len(datagram[2]), maxSize)
             IN  [s EXCEPT !.call = [NoCall EXCEPT
                                     !.op = "readDatagram", !.returned = length,
                                     !.data = IF data THEN SubSeq(datagram[2], 1, length)
                                              ELSE <<>>,
                                     !.port = IF port THEN datagram[1] ELSE 0]]
        ELSE returned(socketSetError(s, UnknownSocketError, "Failed to read datagram"),
                      "readDatagram", -1)

\* WebRTCSocket::readDatagram(data, maxSize, address, port): a datagram is
\* <<channel, message>>, a message a sequence of bytes; data and port tell
\* whether the caller gave these pointers
readDatagram(sock, data, maxSize, port) ==
    LET s == clearError(sock)
    IN  IF Len(s.receivedQueue) > 0
        THEN LET datagram == Head(s.receivedQueue)
                 length == min(Len(datagram[2]), maxSize)
             IN  [s EXCEPT !.receivedQueue = Tail(@),
                           !.call = [NoCall EXCEPT
                                     !.op = "readDatagram", !.returned = length,
                                     !.data = IF data THEN SubSeq(datagram[2], 1, length)
                                              ELSE <<>>,
                                     !.port = IF port THEN datagram[1] ELSE 0]]
        ELSE returned(socketSetError(s, UnknownSocketError, "Failed to read datagram"),
                      "readDatagram", -1)

\* WebRTCSocket::writeDatagram(datagram, port): sent tells what
\* sendDataMessage returned
writeDatagram(sock, length, sent) ==
    LET s == clearError(sock)
    IN  IF sent
        THEN returned(s, "writeDatagram", length)
        ELSE returned(socketSetError(s, UnknownSocketError, "Failed to write datagram"),
                      "writeDatagram", -1)

\* WebRTCSocket::setSocketOption(option, value): returns nothing
setSocketOption(sock, option) ==
    LET s == clearError(sock)
    IN  IF option \in {"ReceiveBufferSizeSocketOption", "SendBufferSizeSocketOption"}
        THEN returned(s, "setSocketOption", 0)
        ELSE returned(socketSetError(s, UnsupportedSocketOperationError,
                                     "Failed to set socket option"),
                      "setSocketOption", -1)

\* WebRTCSocket::socketOption(option): a buffer size, or an invalid QVariant
socketOption(sock, option) ==
    LET s == clearError(sock)
    IN  IF option \in {"ReceiveBufferSizeSocketOption", "SendBufferSizeSocketOption"}
        THEN returned(s, "socketOption", 1)
        ELSE returned(socketSetError(s, UnsupportedSocketOperationError,
                                     "Failed to get socket option"),
                      "socketOption", -1)

\* WebRTCSocket::onDataChannelReceivedMessage(dataChannelID, message)
onDataChannelReceivedMessage(sock, dataChannelID, message) ==
    [sock EXCEPT !.receivedQueue = Append(@, <<dataChannelID, message>>)]

\* the event loop is running
Alive == ~crashed

\* ------------------------------------------------------------ json status

NoError == [type |-> "none", data |-> <<>>]

\* status = { directory: {status: unknown}, account: {...}, certificate: {...} }
UnknownStatus ==
    [directory   |-> [status |-> "unknown", error |-> NoError],
     account     |-> [status |-> "unknown", error |-> NoError],
     certificate |-> [status |-> "unknown", error |-> NoError,
                      expiry |-> NoValue, renewal |-> NoValue]]

\* setError(json, type, data)
setError(json, type, data) ==
    [json EXCEPT !.status = "error", !.error = [type |-> type, data |-> data]]

\* ------------------------------------------------------------------ files

\* QFile::exists
exists(content) == content # Absent

\* readAll: the bytes, or the empty string when the file cannot be opened
readAll(content) == IF content = Absent THEN Empty ELSE content

\* writeAll: <<file afterwards, returned bool>>.  open(WriteOnly) truncates;
\* a short write leaves part of the data, which parses as nothing
writeAll(data, old, io) ==
    CASE io = "ok"    -> <<data, TRUE>>
      [] io = "open"  -> <<old, FALSE>>
      [] io = "short" -> <<IF data = Empty THEN Empty ELSE Bad, data = Empty>>

\* readCertificate: {fullchain, privkey}
readCertificate(files) ==
    [fullchain |-> readAll(files.cert), privkey |-> readAll(files.key)]

\* Certificate::getExpiryOrError
getExpiryOrError(cert) ==
    [success |-> cert.fullchain > 0, value |-> cert.fullchain]

\* the permissions of a file after QFile::open(WriteOnly): a file that was
\* there keeps its own, a file the call creates gets 0666 less the umask of
\* the process ("umask"), which nothing in writeAll narrows to the owner
openWriteOnly(mode, old, io) ==
    IF io = "open" THEN mode
    ELSE IF old = Absent THEN "umask"
    ELSE mode

\* writeCertificate: writeAll(fullchain, cert) && writeAll(privkey, key)
\* writeCertificate with the two paths taken for each other
writeCertificateSwapped(cert, files, ioCert, ioKey) ==
    LET c == writeAll(cert.privkey, files.cert, ioCert)
        k == writeAll(cert.fullchain, files.key, ioKey)
    IN  IF c[2]
        THEN [files |-> [files EXCEPT !.cert = c[1], !.key = k[1],
                                      !.keyMode = openWriteOnly(@, files.key, ioKey)],
              ok |-> k[2]]
        ELSE [files |-> [files EXCEPT !.cert = c[1]], ok |-> FALSE]

writeCertificate(cert, files, ioCert, ioKey) ==
    LET c == writeAll(cert.fullchain, files.cert, ioCert)
        k == writeAll(cert.privkey, files.key, ioKey)
    IN  IF c[2]
        THEN [files |-> [files EXCEPT !.cert = c[1], !.key = k[1],
                                      !.keyMode = openWriteOnly(@, files.key, ioKey)],
              ok |-> k[2]]
        ELSE [files |-> [files EXCEPT !.cert = c[1]], ok |-> FALSE]

\* the files of the object after a write: certificateUpdated has been
\* emitted by nobody for a pair of files that has just changed
withFiles(s, files) ==
    IF files.cert = s.fs.cert /\ files.key = s.fs.key
    THEN [s EXCEPT !.fs = files]
    ELSE [s EXCEPT !.fs = files, !.fileEmit = {}]

\* emit certificateUpdated(paths), by the terminal continuation of cycle i
emitCertificateUpdated(s, i) ==
    [s EXCEPT !.cycles[i].emits = @ + 1, !.fileEmit = @ \cup {"acme"}]

\* ----------------------------------------------------------------- cycles

\* the continuation chain a generateCertificate call leaves behind:
\*   pc       where the chain waits: directory (acme_lw::init), account
\*            (createAccount), order (orderCertificate), selfcheck (a
\*            ChallengeSelfCheck exists), retrieve (retrieveCertificate),
\*            or done / failed once its terminal continuation has run
\*   nchal    challenges the order has handed over so far
\*   urls     the urls the ChallengeSelfCheck holds
\*   pending  the urls (by index) whose waitForGet still holds the object
\*   fired    calls of the ChallengeSelfCheck's stored callback
\*   answers  what the GETs of the self-check brought: "none" while no GET
\*            was made, "no" while every GET that ended failed or timed
\*            out, "yes" once one has been answered
\*   emits    certificateUpdated signals of the terminal continuation
NewCycle == [pc |-> "directory", nchal |-> 0, urls |-> <<>>, pending |-> {},
             fired |-> 0, answers |-> "none", emits |-> 0]

\* a chain that is over holds nothing any more
ended(c, pc) ==
    [c EXCEPT !.pc = pc, !.nchal = 0, !.urls = <<>>, !.pending = {}, !.answers = "none"]

InFlight(c) == c.pc \notin {"done", "failed"}

\* ------------------------------------------------- DomainServerAcmeClient

\* remainingTime: (expiryTime - now) * 2 / 3, the division of C++ (towards zero)
remainingTime(expiryTime, clock) ==
    LET n == (expiryTime - clock) * 2
    IN  IF n >= 0 THEN n \div 3 ELSE -((-n) \div 3)

\* milliseconds in one tick
MsPerTick == 86400000 \div Day

\* duration_cast<milliseconds>(duration).count(), a 64 bit count, as the int
\* that QTimer::start(int) receives: the low 32 bits, two's complement.  The
\* product is computed in 16 bit halves
msecs(duration) ==
    LET low  == (MsPerTick % 65536) * duration
        high == ((MsPerTick \div 65536) * duration + (low \div 65536)) % 65536
    IN  IF high >= 32768
        THEN (high - 65536) * 65536 + (low % 65536)
        ELSE high * 65536 + (low % 65536)

\* renewalTimer.stop(); renewalTimer.start(msec) at time clock: the timer is
\* due at the first tick that is msec or more away; a negative interval
\* starts no timer
start(msec, clock) ==
    IF msec < 0
    THEN [active |-> FALSE, deadline |-> clock]
    ELSE [active |-> TRUE,
          deadline |-> clock + (msec \div MsPerTick)
                             + (IF msec % MsPerTick = 0 THEN 0 ELSE 1)]

\* scheduleRenewalIn(duration)
scheduleRenewalIn(s, duration) ==
    [s EXCEPT !.renewalTimer = start(msecs(duration), s.now),
              !.status.certificate.renewal = s.now + duration]

\* createAccountKey: false when the file cannot be opened for writing
createAccountKey(io) == io # "key-write"

\* generateCertificate(certPaths), up to the call of acme_lw::init
generateCertificate(s, io) ==
    IF ~exists(s.fs.accountKey) /\ ~createAccountKey(io)
    THEN [s EXCEPT !.status.account = setError(@, "key-write", <<>>),
                   !.cycles = Append(@, ended(NewCycle, "failed"))]
    ELSE LET s1 == IF exists(s.fs.accountKey) THEN s
                   ELSE [s EXCEPT !.fs.accountKey = 1, !.fs.accountKeyMode = "owner"]
         IN  IF io = "key-read"
             THEN [s1 EXCEPT !.status.account = setError(@, "key-read", <<>>),
                             !.cycles = Append(@, ended(NewCycle, "failed"))]
             ELSE [s1 EXCEPT !.selfCheckUrls = <<>>,
                             !.status.directory.status = "pending",
                             !.cycles = Append(@, NewCycle)]

\* handleRenewal without its write of this->expiry: the update check would
\* then take the certificate the client itself has just written for a new one
handleRenewalKeepingExpiry(s, certExpiry, io) ==
    LET s1 == [s EXCEPT !.status.certificate.status = "ok",
                        !.status.certificate.expiry = certExpiry]
        remaining == remainingTime(certExpiry, s.now)
    IN  IF remaining > 0
        THEN scheduleRenewalIn(s1, remaining)
        ELSE generateCertificate(s1, io)

\* handleRenewal(expiry, certPaths)
handleRenewal(s, certExpiry, io) ==
    LET s1 == [s EXCEPT !.status.certificate.status = "ok",
                        !.status.certificate.expiry = certExpiry,
                        !.expiry = certExpiry]
        remaining == remainingTime(certExpiry, s.now)
    IN  IF remaining > 0
        THEN scheduleRenewalIn(s1, remaining)
        ELSE generateCertificate(s1, io)

\* checkExpiry(certPaths)
checkExpiry(s, io) ==
    LET cert == readCertificate(s.fs)
        parsed == getExpiryOrError(cert)
    IN  IF cert.fullchain = Empty \/ cert.privkey = Empty
        THEN [s EXCEPT !.status.certificate =
                           setError(@, "invalid", [message |-> "Failed to read certificate files."])]
        ELSE IF parsed.success
        THEN handleRenewal(s, parsed.value, io)
        ELSE [s EXCEPT !.status.certificate =
                           setError(@, "invalid", [message |-> "Failed to read certificate expiry date."])]

\* init()
init(s, io) ==
    LET s1 == [s EXCEPT !.status = UnknownStatus]
    IN  IF ~s.enabled THEN s1
        ELSE IF exists(s.fs.cert) /\ exists(s.fs.key) THEN checkExpiry(s1, io)
        ELSE IF ~exists(s.fs.cert) /\ ~exists(s.fs.key) THEN generateCertificate(s1, io)
        ELSE IF exists(s.fs.cert)
        THEN [s1 EXCEPT !.status.certificate = setError(@, "missing", [missing |-> "key", present |-> "cert"])]
        ELSE [s1 EXCEPT !.status.certificate = setError(@, "missing", [missing |-> "cert", present |-> "key"])]

\* a terminal continuation that emits certificateUpdated whatever the outcome
nextEmittingAlways(s, i, certExpiry, success, io) ==
    IF success
    THEN handleRenewal(emitCertificateUpdated(s, i), certExpiry, io)
    ELSE scheduleRenewalIn(emitCertificateUpdated(s, i), Day)

\* the terminal continuation of generateCertificate:
\* [this](auto cert, auto certPaths, bool success)
next(s, i, certExpiry, success, io) ==
    IF success
    THEN handleRenewal(emitCertificateUpdated(s, i), certExpiry, io)
    ELSE scheduleRenewalIn(s, Day)

\* ------------------------------------------------------- updateCheckTimer

\* the slot connected to updateCheckTimer.timeout in the constructor; "read"
\* marks the files as read by it, "watcher" as announced by it
\* an update check that takes an equal expiry for a new one
updateCheckNotStrict(s) ==
    IF exists(s.fs.cert) /\ exists(s.fs.key)
    THEN LET cert == readCertificate(s.fs)
             newExpiry == getExpiryOrError(cert)
         IN  IF cert.fullchain # Empty /\ cert.privkey # Empty
                /\ newExpiry.success /\ s.expiry <= newExpiry.value
             THEN [s EXCEPT !.fileEmit = @ \cup {"read", "watcher"},
                            !.expiry = newExpiry.value]
             ELSE [s EXCEPT !.fileEmit = @ \cup {"read"}]
    ELSE s

updateCheck(s) ==
    IF exists(s.fs.cert) /\ exists(s.fs.key)
    THEN LET cert == readCertificate(s.fs)
             newExpiry == getExpiryOrError(cert)
         IN  IF cert.fullchain # Empty /\ cert.privkey # Empty
                /\ newExpiry.success /\ s.expiry < newExpiry.value
             THEN [s EXCEPT !.fileEmit = @ \cup {"read", "watcher"},
                            !.expiry = newExpiry.value]
             ELSE [s EXCEPT !.fileEmit = @ \cup {"read"}]
    ELSE s

\* ------------------------------------------------------------ the actions

NoResponse == [op |-> "none", path |-> "none", body |-> Empty, code |-> 0, init |-> FALSE]

\* connection->respond(code) to the request op on /acme/<path> with the given
\* body; ranInit tells whether the handler called init()
respond(op, path, body, code, ranInit) ==
    [op |-> op, path |-> path, body |-> body, code |-> code, init |-> ranInit]

\* the handler has run to its end, leaving the object as s and, when it
\* served a request, answering resp
Commit(s, resp) ==
    /\ Len(s.cycles) <= MaxCycles
    /\ status' = s.status
    /\ renewalTimer' = s.renewalTimer
    /\ expiry' = s.expiry
    /\ challengeHandler' = s.challengeHandler
    /\ selfCheckUrls' = s.selfCheckUrls
    /\ fs' = s.fs
    /\ cycles' = s.cycles
    /\ fileEmit' = s.fileEmit
    /\ http' = IF resp.op = "none" THEN http ELSE resp
    /\ requests' = IF resp.op = "none" THEN requests ELSE [requests EXCEPT ![resp.op] = @ + 1]
    /\ store' = store
    /\ accountKeyPath' = accountKeyPath
    /\ socket' = socket
    /\ challengeFiles' = challengeFiles

\* the state the constructor leaves: both timers connected, the update check
\* started for 24h, init() called
Construct(c, keyToo, k, en, io) ==
        LET s0 == [status |-> UnknownStatus,
                   renewalTimer |-> [active |-> FALSE, deadline |-> 0],
                   expiry |-> 0,
                   challengeHandler |-> NoHandler,
                   selfCheckUrls |-> <<>>,
                   fs |-> [cert |-> c,
                           key |-> IF ~keyToo THEN Absent ELSE IF c = Absent THEN 4 ELSE c,
                           accountKey |-> k,
                           authorities |-> Absent,
                           unnamed |-> Absent,
                           keyMode |-> IF keyToo THEN "owner" ELSE "none",
                           accountKeyMode |-> IF k = Absent THEN "none" ELSE "owner"],
                   cycles |-> <<>>,
                   fileEmit |-> {},
                   now |-> 0,
                   enabled |-> en]
            s == init(s0, io)
        IN  /\ status = s.status
            /\ renewalTimer = s.renewalTimer
            /\ updateCheckTimer = Day
            /\ expiry = s.expiry
            /\ challengeHandler = s.challengeHandler
            /\ selfCheckUrls = s.selfCheckUrls
            /\ fs = s.fs
            /\ cycles = s.cycles
            /\ fileEmit = s.fileEmit
            /\ now = 0
            /\ enabled = en
            /\ http = NoResponse
            /\ requests = [POST |-> 0, PUT |-> 0, DELETE |-> 0]
            /\ crashed = FALSE

\* acme_lw::Certificate
Certificate(fullchain, privkey) == [fullchain |-> fullchain, privkey |-> privkey]

\* no writeCertificate call under observation
NoStore == [cert |-> Certificate(Empty, Empty), called |-> FALSE, ok |-> FALSE,
            loaded |-> FALSE, read |-> Certificate(Empty, Empty)]

Init ==
    \E c \in InitialCerts, keyToo \in BOOLEAN, k \in {Absent, 1}, en \in BOOLEAN, io \in KeyIO :
        /\ Construct(c, keyToo, k, en, io)
        /\ accountKeyPath = ConfiguredAccountKeyPath
        /\ socket = NewSocket
        /\ challengeFiles = NewChallengeFiles
        /\ store = NoStore

\* a timer whose deadline has come is served before the clock moves on
TimerDue ==
    \/ renewalTimer.active /\ renewalTimer.deadline <= now
    \/ updateCheckTimer <= now

\* system_clock::now() advances
Tick ==
    /\ Alive
    /\ now < MaxTime
    /\ ~TimerDue
    /\ now' = now + 1
    /\ UNCHANGED <<status, renewalTimer, updateCheckTimer, expiry, challengeHandler,
                   selfCheckUrls, fs, cycles, fileEmit, enabled, http, requests, crashed,
                   accountKeyPath, challengeFiles, socket, store>>

\* renewalTimer.timeout: [this](){ init(); }
RenewalTimeout ==
    /\ Alive
    /\ renewalTimer.active /\ renewalTimer.deadline <= now
    /\ \E io \in KeyIO :
           Commit(init([Self EXCEPT !.renewalTimer.active = FALSE], io), NoResponse)
    /\ UNCHANGED <<updateCheckTimer, now, enabled, crashed>>

\* updateCheckTimer.timeout, every 24h
UpdateCheckTimeout ==
    /\ Alive
    /\ updateCheckTimer <= now
    /\ updateCheckTimer' = updateCheckTimer + Day
    /\ Commit(updateCheck(Self), NoResponse)
    /\ UNCHANGED <<now, enabled, crashed>>

\* ------------------------------------------- handleAuthenticatedHTTPRequest

\* a nlohmann::json value with its type
jsonObject(v) == [type |-> "object", value |-> v]
jsonString(v) == [type |-> "string", value |-> <<v>>]

\* operator!=(const json&, const char*): the string becomes a json value;
\* values of different types are unequal
jsonNotEqual(lhs, rhs) == lhs.type # rhs.type \/ lhs.value # rhs.value

\* the test of POST /acme/update, as the code writes it
updateAllowed(st) ==
    /\ jsonNotEqual(jsonObject(st.directory), jsonString("pending"))
    /\ jsonNotEqual(jsonObject(st.account), jsonString("pending"))
    /\ jsonNotEqual(jsonObject(st.certificate), jsonString("pending"))

\* POST /acme/update
PostUpdate ==
    /\ Alive
    /\ requests.POST < MaxRequests
    /\ IF updateAllowed(status)
       THEN \E io \in KeyIO :
                Commit(init(Self, io), respond("POST", "update", Empty, 200, TRUE))
       ELSE Commit(Self, respond("POST", "update", Empty, 409, FALSE))
    /\ UNCHANGED <<updateCheckTimer, now, enabled, crashed>>

\* getAccountKeyPath(settings)
getAccountKeyPath(setting) == setting

\* the path generateCertificate loads the account key from, or generates it
\* into: fs.accountKey is the file at this path
accountKeyFile(setting) ==
    IF getAccountKeyPath(setting) = "" THEN DefaultAccountKeyPath
    ELSE getAccountKeyPath(setting)

\* fileMap: the file a route acts on.  A QFile of no name does not exist and
\* can be neither opened nor removed
fileMap(setting, route) ==
    IF route # "accountKey" THEN route
    ELSE IF getAccountKeyPath(setting) = accountKeyFile(setting) THEN "accountKey"
    ELSE "unnamed"

\* the file routes of fileMap, by the file they stand for: /acme/account-key,
\* /acme/cert, /acme/cert-key, /acme/cert-authorities
Routes == {"accountKey", "cert", "key", "authorities"}

\* request bodies: nothing, or a PEM (for a certificate, of that expiry)
Bodies == {Empty, 5}

\* outcomes of QFile::remove
RemoveIO == {"ok", "fail"}

\* the files after path has been given content and, if it is one of the two
\* keys, permissions
fileSet(files, path, content, mode) ==
    LET f == [files EXCEPT ![path] = content]
    IN  CASE path = "key"        -> [f EXCEPT !.keyMode = mode]
          [] path = "accountKey" -> [f EXCEPT !.accountKeyMode = mode]
          [] OTHER               -> f

\* the permissions of the file behind path, for the two keys
fileMode(files, path) ==
    CASE path = "key"        -> files.keyMode
      [] path = "accountKey" -> files.accountKeyMode
      [] OTHER               -> "none"

\* a PUT that skips the QFile::exists test and writes in every case
putFileOverwriting(s, path, body, io) ==
    LET w == writeAll(body, s.fs[path], io)
        mode == openWriteOnly(fileMode(s.fs, path), s.fs[path], io)
    IN  [s |-> withFiles(s, fileSet(s.fs, path, w[1], mode)),
         code |-> IF w[2] THEN 200 ELSE 500]

\* PUT on a file route: 409 when the file exists, else writeAll(body, path)
\* and 200 or 500
putFile(s, path, body, io) ==
    IF exists(s.fs[path])
    THEN [s |-> s, code |-> 409]
    ELSE LET w == writeAll(body, s.fs[path], io)
             mode == IF io = "open" THEN "none"
                     ELSE openWriteOnly(fileMode(s.fs, path), s.fs[path], io)
         IN  [s |-> withFiles(s, fileSet(s.fs, path, w[1], mode)),
              code |-> IF w[2] THEN 200 ELSE 500]

\* DELETE on a file route: QFile(path).remove(), 200 or 500
deleteFile(s, path, io) ==
    IF exists(s.fs[path]) /\ io = "ok"
    THEN [s |-> withFiles(s, fileSet(s.fs, path, Absent, "none")), code |-> 200]
    ELSE [s |-> s, code |-> 500]

\* PUT /acme/account-key, /acme/cert, /acme/cert-key, /acme/cert-authorities
PutFile ==
    /\ Alive
    /\ requests.PUT + requests.DELETE < MaxFileRequests
    /\ \E path \in Routes, body \in Bodies, io \in WriteIO :
           LET file == fileMap(accountKeyPath, path)
               r == putFile(Self, file, body, IF file = "unnamed" THEN "open" ELSE io)
           IN  Commit(r.s, respond("PUT", path, body, r.code, FALSE))
    /\ UNCHANGED <<updateCheckTimer, now, enabled, crashed>>

\* DELETE on the same routes
DeleteFile ==
    /\ Alive
    /\ requests.PUT + requests.DELETE < MaxFileRequests
    /\ \E path \in Routes, io \in RemoveIO :
           LET r == deleteFile(Self, fileMap(accountKeyPath, path), io)
           IN  Commit(r.s, respond("DELETE", path, Empty, r.code, FALSE))
    /\ UNCHANGED <<updateCheckTimer, now, enabled, crashed>>

\* ------------------------------------------------ the continuation chain

\* cycle i waits at pc
At(i, pc) == i \in DOMAIN cycles /\ cycles[i].pc = pc

\* the error overloads of AccountCallback and OrderCallback: the error is
\* recorded under json stage js, selfCheckUrls is cleared, the terminal
\* continuation runs
failCycle(s, i, js) ==
    next([s EXCEPT !.status[js] = setError(@, "acme", [message |-> "error.what()"]),
                   !.selfCheckUrls = <<>>,
                   !.cycles[i] = ended(@, "failed")],
         i, 0, FALSE, "ok")

\* acme_lw::init succeeded: the lambda given to forwardAcmeError
DirectoryOk(i) ==
    /\ Alive /\ At(i, "directory")
    /\ Commit([Self EXCEPT !.status.directory.status = "ok",
                           !.status.account.status = "pending",
                           !.cycles[i].pc = "account"], NoResponse)
    /\ UNCHANGED <<updateCheckTimer, now, enabled, crashed>>

\* acme_lw::init failed: AccountCallback::operator()(AcmeException)
DirectoryError(i) ==
    /\ Alive /\ At(i, "directory")
    /\ Commit(failCycle(Self, i, "directory"), NoResponse)
    /\ UNCHANGED <<updateCheckTimer, now, enabled, crashed>>

\* createAccount succeeded: AccountCallback::operator()(AcmeClient)
AccountOk(i) ==
    /\ Alive /\ At(i, "account")
    /\ Commit([Self EXCEPT !.status.account.status = "ok",
                           !.status.certificate.status = "pending",
                           !.cycles[i].pc = "order"], NoResponse)
    /\ UNCHANGED <<updateCheckTimer, now, enabled, crashed>>

\* createAccount failed: AccountCallback::operator()(AcmeClient, AcmeException)
AccountError(i) ==
    /\ Alive /\ At(i, "account")
    /\ Commit(failCycle(Self, i, "account"), NoResponse)
    /\ UNCHANGED <<updateCheckTimer, now, enabled, crashed>>

\* orderCertificate hands over one challenge: the lambda of AccountCallback
Challenge(i) ==
    /\ Alive /\ At(i, "order")
    /\ cycles[i].nchal < MaxChallenges
    /\ Commit([Self EXCEPT
                  !.challengeHandler = IF @ = NoHandler THEN i ELSE @,
                  !.selfCheckUrls = Append(@, <<i, cycles[i].nchal + 1>>),
                  !.cycles[i].nchal = @ + 1], NoResponse)
    /\ UNCHANGED <<updateCheckTimer, now, enabled, crashed>>

\* orderCertificate failed: OrderCallback::operator()(AcmeClient, AcmeException)
OrderError(i) ==
    /\ Alive /\ At(i, "order")
    /\ Commit(failCycle(Self, i, "certificate"), NoResponse)
    /\ UNCHANGED <<updateCheckTimer, now, enabled, crashed>>

\* what reading selfCheckDuration() through an empty challengeHandler can
\* do: the process dies before or after the ChallengeSelfCheck has been
\* constructed (the order of evaluation differs between language versions),
\* or the call returns some duration and the handler goes on
UBOutcomes == {"crash-before", "crash-after", "proceed"}

\* challengeSelfCheck(callback, std::move(selfCheckUrls))->start(...): the
\* object takes the urls; with no url nothing holds it and its destructor
\* calls the callback (retrieveCertificate) at the end of the statement
\* an order callback that goes on to retrieveCertificate at once and leaves
\* the self-check behind
startSelfCheckSkipped(c, urls) ==
    IF urls = <<>>
    THEN [c EXCEPT !.nchal = 0, !.fired = @ + 1, !.pc = "retrieve"]
    ELSE [c EXCEPT !.nchal = 0, !.urls = urls, !.pending = 1..Len(urls),
                   !.answers = "no", !.pc = "retrieve"]

startSelfCheck(c, urls) ==
    IF urls = <<>>
    THEN [c EXCEPT !.nchal = 0, !.fired = @ + 1, !.pc = "retrieve"]
    ELSE [c EXCEPT !.nchal = 0, !.urls = urls, !.pending = 1..Len(urls),
                   !.answers = "no", !.pc = "selfcheck"]

\* orderCertificate succeeded: OrderCallback::operator()(client, challenges, ...)
OrderOk(i) ==
    /\ Alive /\ At(i, "order")
    /\ \E ub \in IF challengeHandler = NoHandler THEN UBOutcomes ELSE {"proceed"} :
           IF ub = "proceed"
           THEN /\ Commit([Self EXCEPT !.cycles[i] = startSelfCheck(@, selfCheckUrls),
                                       !.selfCheckUrls = <<>>], NoResponse)
                /\ UNCHANGED crashed
           ELSE /\ Commit(IF ub = "crash-after"
                          THEN [Self EXCEPT !.cycles[i] = [@ EXCEPT !.nchal = 0,
                                                                    !.urls = selfCheckUrls,
                                                                    !.pc = "selfcheck"],
                                            !.selfCheckUrls = <<>>]
                          ELSE Self, NoResponse)
                /\ crashed' = TRUE
    /\ UNCHANGED <<updateCheckTimer, now, enabled>>

\* a self-check that gives the cycle up when no GET was answered
getDoneGivingUp(c, k, response) ==
    LET answers == IF response THEN "yes" ELSE c.answers
    IN  IF c.pending = {k}
        THEN IF answers = "no"
             THEN ended(c, "failed")
             ELSE [c EXCEPT !.pending = {}, !.urls = <<>>, !.fired = @ + 1,
                            !.answers = answers, !.pc = "retrieve"]
        ELSE [c EXCEPT !.pending = @ \ {k}, !.answers = answers]

\* the ChallengeSelfCheck of a cycle when waitForGet k is over, with a
\* response (operator()(Response)) or with an error or at the end of the
\* duration (operator()(AcmeException), which only logs): the shared_callback
\* is dropped, and the last one to go destroys the object, whose destructor
\* calls the callback
getDone(c, k, response) ==
    LET answers == IF response THEN "yes" ELSE c.answers
    IN  IF c.pending = {k}
        THEN [c EXCEPT !.pending = {}, !.urls = <<>>, !.fired = @ + 1,
                       !.answers = answers, !.pc = "retrieve"]
        ELSE [c EXCEPT !.pending = @ \ {k}, !.answers = answers]

\* one waitForGet is over
GetDone(i, k) ==
    /\ Alive /\ At(i, "selfcheck")
    /\ k \in cycles[i].pending
    /\ \E response \in BOOLEAN :
           Commit([Self EXCEPT !.cycles[i] = getDone(@, k, response)], NoResponse)
    /\ UNCHANGED <<updateCheckTimer, now, enabled, crashed>>

\* CertificateCallback::operator()(AcmeClient, Certificate), the object after it
certificateRetrieved(s, i, cert, ioCert, ioKey, io) ==
    LET w  == writeCertificate(cert, s.fs, ioCert, ioKey)
        s1 == withFiles([s EXCEPT !.challengeHandler = NoHandler], w.files)
        s2 == IF w.ok
              THEN [s1 EXCEPT !.cycles[i] = ended(@, "done")]
              ELSE [s1 EXCEPT !.status.certificate =
                                  setError(@, "write", [message |-> "Failed to write certificate files."]),
                              !.cycles[i] = ended(@, "failed")]
    IN  next(s2, i, cert.fullchain, w.ok, io)

\* retrieveCertificate succeeded: the CA issued a certificate
CertificateIssued(i, life, ioCert, ioKey, io) ==
    /\ Alive /\ At(i, "retrieve")
    /\ Commit(certificateRetrieved(Self, i,
                  [fullchain |-> now + life, privkey |-> now + life],
                  ioCert, ioKey, io), NoResponse)
    /\ UNCHANGED <<updateCheckTimer, now, enabled, crashed>>

CertificateOk(i) ==
    \E life \in Lifetimes, ioCert \in WriteIO, ioKey \in WriteIO, io \in KeyIO :
        CertificateIssued(i, life, ioCert, ioKey, io)

\* retrieveCertificate failed (challenge, finalize or download):
\* CertificateCallback::operator()(AcmeClient, AcmeException)
CertificateError(i) ==
    /\ Alive /\ At(i, "retrieve")
    /\ Commit(next([Self EXCEPT !.status.certificate = setError(@, "acme", [message |-> "error.what()"]),
                                !.challengeHandler = NoHandler,
                                !.cycles[i] = ended(@, "failed")],
                   i, 0, FALSE, "ok"), NoResponse)
    /\ UNCHANGED <<updateCheckTimer, now, enabled, crashed>>

\* ------------------------------------------------------ the specification

Next ==
    \/ Tick
    \/ RenewalTimeout
    \/ UpdateCheckTimeout
    \/ PostUpdate
    \/ \E i \in 1..MaxCycles :
           \/ DirectoryOk(i)
           \/ DirectoryError(i)
           \/ AccountOk(i)
           \/ AccountError(i)
           \/ Challenge(i)
           \/ OrderOk(i)
           \/ OrderError(i)
           \/ \E k \in 1..(MaxCycles * MaxChallenges) : GetDone(i, k)
           \/ CertificateOk(i)
           \/ CertificateError(i)

Spec == Init /\ [][Next]_vars

\* the client with an administrator who uses the file routes and leaves
\* /acme/update alone
NextAdmin ==
    \/ Tick
    \/ RenewalTimeout
    \/ UpdateCheckTimeout
    \/ PutFile
    \/ DeleteFile
    \/ \E i \in 1..MaxCycles :
           \/ DirectoryOk(i)
           \/ DirectoryError(i)
           \/ AccountOk(i)
           \/ AccountError(i)
           \/ Challenge(i)
           \/ OrderOk(i)
           \/ OrderError(i)
           \/ \E k \in 1..(MaxCycles * MaxChallenges) : GetDone(i, k)
           \/ CertificateOk(i)
           \/ CertificateError(i)

SpecAdmin == Init /\ [][NextAdmin]_vars

\* ------------------------------------------------------------- properties

Stages == {"directory", "account", "certificate"}

\* some stage of the status is "pending"
SomePending == \E js \in Stages : status[js].status = "pending"

\* this step served a POST /acme/update
Posted == requests'.POST = requests.POST + 1

\* this step ran init(): the renewal timer fired, or a POST was let through
InitStep == RenewalTimeout \/ (Posted /\ http'.init)

\* the terminal continuation of cycle i ran in this step
Terminated(i) ==
    /\ i \in DOMAIN cycles'
    /\ ~InFlight(cycles'[i])
    /\ (i \in DOMAIN cycles => InFlight(cycles[i]))

\* one move of a status field along unknown -> pending -> (ok | error)
Forward(a, b) ==
    \/ a = b
    \/ a = "unknown" /\ b = "pending"
    \/ a = "pending" /\ b \in {"ok", "error"}

\* C1: at most one generateCertificate continuation chain is in flight at any
\* time, whichever of construction, renewal timer and POST /acme/update
\* called init()
C1_AtMostOneCycleInFlight ==
    Cardinality({i \in DOMAIN cycles : InFlight(cycles[i])}) <= 1

\* C2: POST /acme/update answers 409 without calling init() if and only if
\* some stage is "pending"; otherwise it answers 200 and calls init()
C2_UpdateRefusedIffPending ==
    [][Posted =>
          IF SomePending
          THEN http'.code = 409 /\ ~http'.init
          ELSE http'.code = 200 /\ http'.init]_vars

\* C3: when the terminal continuation of a cycle has run, on success or on an
\* error at any stage, the challenge handler slot is empty (no other cycle
\* being in flight that could own a handler)
C3_HandlerReleasedAtEnd ==
    [][\A i \in DOMAIN cycles' :
          (Terminated(i) /\ \A j \in DOMAIN cycles' : ~InFlight(cycles'[j]))
              => challengeHandler' = NoHandler]_vars

\* C4: between two resets by init() every stage status moves only forward
\* along unknown -> pending -> (ok | error); a step that runs init() leaves
\* each stage where one forward move from unknown can bring it
C4_StatusMovesForward ==
    [][\A js \in Stages :
          IF InitStep
          THEN Forward("unknown", status'[js].status)
          ELSE Forward(status[js].status, status'[js].status)]_vars

\* C5: whenever a generateCertificate call ends in failure, at whatever
\* stage, the renewal timer is armed for 24h by the end of the handler that
\* recorded the failure
C5_FailureArmsRetry ==
    [][\A i \in DOMAIN cycles' :
          (Terminated(i) /\ cycles'[i].pc = "failed")
              => /\ renewalTimer'.active
                 /\ renewalTimer'.deadline = now + Day]_vars

\* C6: when the timer that handleRenewal armed fires and the certificate on
\* disk is the one handleRenewal saw and has not expired, init() starts a new
\* cycle
C6_RenewalTimerStartsCycle ==
    [][(/\ RenewalTimeout
        /\ enabled
        /\ status.certificate.status = "ok"
        /\ status.certificate.renewal = renewalTimer.deadline
        /\ fs.cert > now /\ fs.key > now
        /\ fs.cert = status.certificate.expiry)
          => Len(cycles') = Len(cycles) + 1]_vars

\* C7: a cycle that succeeded has emitted certificateUpdated exactly once, any
\* other cycle (in flight, or failed at any stage) never
C7_EmitsOnceOnSuccessOnly ==
    \A i \in DOMAIN cycles :
        cycles[i].emits = IF cycles[i].pc = "done" THEN 1 ELSE 0

\* C7 happens: one cycle succeeded and emitted, a later one failed writing
\* the certificate it had downloaded
C7_Witness ==
    \E i, j \in DOMAIN cycles :
        /\ cycles[i].pc = "done" /\ cycles[i].emits = 1
        /\ cycles[j].pc = "failed" /\ cycles[j].fired = 1
        /\ status.certificate.error.type = "write"

\* C8: for the files as they are on disk, certificateUpdated has not been
\* emitted both by a cycle and by the update check
C8_NeverBothEmit == ~({"acme", "watcher"} \subseteq fileEmit)

\* C8 happens: a cycle succeeded and emitted, and the update check has read
\* the files it wrote
C8_Witness ==
    /\ fileEmit = {"acme", "read"}
    /\ \E i \in DOMAIN cycles : cycles[i].pc = "done"
    /\ updateCheckTimer > Day

\* C9: the continuation a ChallengeSelfCheck stores is called exactly once,
\* and only when no GET of it is outstanding: never while the self-check
\* waits, once as soon as nothing is outstanding, whatever the number of
\* urls
C9_SelfCheckCallsOnce ==
    \A i \in DOMAIN cycles :
        /\ cycles[i].fired <= 1
        /\ cycles[i].pending # {} => cycles[i].fired = 0
        /\ (cycles[i].pc = "selfcheck" /\ cycles[i].pending = {}) => cycles[i].fired = 1
        /\ cycles[i].pc \in {"retrieve", "done"} => cycles[i].fired = 1

\* C10: init() with the client enabled and exactly one of the two files on
\* disk records the error "missing" with the absent and the present path,
\* starts no cycle and leaves no renewal timer armed
C10_MissingFileStopsRenewal ==
    [][(InitStep /\ enabled /\ exists(fs.cert) # exists(fs.key))
          => /\ status'.certificate.status = "error"
             /\ status'.certificate.error.type = "missing"
             /\ status'.certificate.error.data =
                    IF exists(fs.cert)
                    THEN [missing |-> "key", present |-> "cert"]
                    ELSE [missing |-> "cert", present |-> "key"]
             /\ cycles' = cycles
             /\ ~renewalTimer'.active]_vars

\* C18: a self-check all of whose GETs failed or timed out ends by calling
\* the continuation once: the cycle goes on to retrieveCertificate and the
\* status records no error
C18_SilentSelfCheckGoesOn ==
    [][\A i \in DOMAIN cycles :
          (/\ cycles[i].pc = "selfcheck"
           /\ cycles'[i].pc # "selfcheck"
           /\ cycles'[i].answers # "yes")
              => /\ cycles'[i].pc = "retrieve"
                 /\ cycles'[i].fired = 1
                 /\ status' = status]_vars

\* C18 happens: a cycle waits in retrieveCertificate after a self-check that
\* made GETs and got no answer
C18_Witness ==
    \E i \in DOMAIN cycles :
        /\ cycles[i].pc = "retrieve"
        /\ cycles[i].answers = "no"
        /\ cycles[i].fired = 1

\* C14: when writeCertificate has written the private key of a downloaded
\* certificate, the key file has owner-only read/write permissions
C14_KeyFileOwnerOnly ==
    [][\A i \in DOMAIN cycles :
          (cycles[i].pc = "retrieve" /\ cycles'[i].pc = "done")
              => fs'.keyMode = "owner"]_vars

\* C16: writeCertificate is atomic over the two files: when the callback of
\* retrieveCertificate has run, either the cycle succeeded and both files
\* hold the new certificate, or it failed and both hold what they held before
C16_WriteIsAtomic ==
    [][\A i \in DOMAIN cycles :
          (cycles[i].pc = "retrieve" /\ cycles'[i].pc # "retrieve")
              => IF cycles'[i].pc = "done"
                 THEN /\ fs'.cert \in {now + life : life \in Lifetimes}
                      /\ fs'.key = fs'.cert
                 ELSE fs'.cert = fs.cert /\ fs'.key = fs.key]_vars

\* this step called scheduleRenewalIn: the status holds a renewal time that
\* it did not hold before, or holds one after the reset of init()
Scheduled ==
    /\ status'.certificate.renewal # NoValue
    /\ (InitStep \/ status'.certificate.renewal # status.certificate.renewal)

\* C11: whenever the status holds certificate.renewal, the renewal timer is
\* armed and due at that time
C11_RenewalMeansTimerArmed ==
    status.certificate.renewal # NoValue
        => /\ renewalTimer.active
           /\ renewalTimer.deadline = status.certificate.renewal

\* C13: after scheduleRenewalIn(d) the timer is armed, the int it was
\* started with is d in milliseconds, so that it is due d from now, and
\* certificate.renewal is now + d
C13_TimerArmedForDuration ==
    [][Scheduled =>
          LET d == status'.certificate.renewal - now
          IN  /\ renewalTimer'.active
              /\ msecs(d) % MsPerTick = 0
              /\ msecs(d) \div MsPerTick = d
              /\ renewalTimer'.deadline = now + d]_vars

\* ------------------------------------------------ the account key path
\* the client and its administrator, with or without acme.account_key_path

InitPaths ==
    \E c \in InitialCerts, keyToo \in BOOLEAN, k \in {Absent, 1}, en \in BOOLEAN, io \in KeyIO,
       path \in {"", ConfiguredAccountKeyPath} :
        /\ Construct(c, keyToo, k, en, io)
        /\ accountKeyPath = path
        /\ socket = NewSocket
        /\ challengeFiles = NewChallengeFiles
        /\ store = NoStore

SpecPaths == InitPaths /\ [][NextAdmin]_vars

\* a DELETE request on a file route has been answered in this step
Deleted == requests'.DELETE = requests.DELETE + 1

\* C27: PUT and DELETE /acme/account-key act on the file generateCertificate
\* loads the account key from: a PUT is refused with 409 when that file
\* exists and otherwise leaves the body in it when it answers 200, and a
\* DELETE answers 200 only when it has removed that file.
C27_RouteActsOnAccountKeyFile ==
    [][/\ (requests'.PUT = requests.PUT + 1 /\ http'.path = "accountKey") =>
              IF exists(fs.accountKey)
              THEN http'.code = 409
              ELSE \/ http'.code = 200 /\ fs'.accountKey = http'.body
                   \/ http'.code = 500 /\ fs'.accountKey # http'.body
       /\ (Deleted /\ http'.path = "accountKey") =>
              (http'.code = 200 <=> (exists(fs.accountKey) /\ ~exists(fs'.accountKey)))]_vars

\* ------------------------------------------------ the files handler on its own
\* an AcmeHttpChallengeFiles that is given challenges and then destroyed,
\* beside a client that is not enabled

\* everything but the handler
notChallengeFiles == <<status, renewalTimer, updateCheckTimer, expiry, challengeHandler,
                       selfCheckUrls, fs, cycles, fileEmit, now, enabled, http, requests,
                       crashed, accountKeyPath, socket, store>>

InitChallengeFiles ==
    /\ Construct(Absent, FALSE, Absent, FALSE, "ok")
    /\ accountKeyPath = ConfiguredAccountKeyPath
    /\ socket = NewSocket
    /\ challengeFiles = NewChallengeFiles
    /\ store = NoStore

AddChallenge ==
    /\ ~challengeFiles.destroyed
    /\ Len(challengeFiles.challengePaths) + Cardinality(challengeFiles.partial)
           < MaxChallengeFiles
    /\ \E path \in ChallengePaths, mkpath \in BOOLEAN, io \in WriteIO :
           challengeFiles' = addChallenge(challengeFiles, path, mkpath, io)
    /\ UNCHANGED notChallengeFiles

DestroyChallengeFiles ==
    /\ ~challengeFiles.destroyed
    /\ \E failingFiles \in SUBSET ChallengePaths, failingDirs \in SUBSET ChallengeDirs :
           challengeFiles' = destroyChallengeFiles(challengeFiles, failingFiles, failingDirs)
    /\ UNCHANGED notChallengeFiles

NextChallengeFiles == AddChallenge \/ DestroyChallengeFiles

SpecChallengeFiles == InitChallengeFiles /\ [][NextChallengeFiles]_vars

\* C28: the files handler records a path only in a call that has made the
\* directory and written the whole file; its destructor attempts one removal
\* for every recorded path, in their order, and after them one rmdir for
\* every distinct directory of a recorded path, whatever fails on the way.
C28_RecordsAndCleansUp ==
    [][LET old == challengeFiles
           new == challengeFiles'
           n == Len(old.challengePaths)
           challengeDirs == {old.challengePaths[k][1] : k \in 1..n}
       IN  /\ new.challengePaths # old.challengePaths =>
                  /\ Len(new.challengePaths) = n + 1
                  /\ new.challengePaths[n + 1] \in new.whole
                  /\ new.challengePaths[n + 1][1] \in new.dirs
           /\ (new.destroyed /\ ~old.destroyed) =>
                  /\ Len(new.log) = n + Cardinality(challengeDirs)
                  /\ \A k \in 1..n : new.log[k] = <<"remove", old.challengePaths[k]>>
                  /\ \A k \in (n + 1)..Len(new.log) : new.log[k][1] = "rmdir"
                  /\ {new.log[k][2] : k \in (n + 1)..Len(new.log)} = challengeDirs]_vars

\* a handler with several recorded paths has been destroyed, with warnings
C28_Witness ==
    /\ challengeFiles.destroyed
    /\ Len(challengeFiles.challengePaths) >= 2
    /\ challengeFiles.warnings >= 1
    /\ Len(challengeFiles.log) > Len(challengeFiles.challengePaths)

\* ------------------------------------------------ the socket on its own
\* a WebRTCSocket and its callers, beside a client that is not enabled

\* everything but the socket
acmeVars == <<status, renewalTimer, updateCheckTimer, expiry, challengeHandler,
              selfCheckUrls, fs, cycles, fileEmit, now, enabled, http, requests, crashed,
              accountKeyPath, challengeFiles, store>>

SocketOptions == {"ReceiveBufferSizeSocketOption", "SendBufferSizeSocketOption",
                  "KeepAliveOption"}

InitSocket ==
    /\ Construct(Absent, FALSE, Absent, FALSE, "ok")
    /\ accountKeyPath = ConfiguredAccountKeyPath
    /\ socket = NewSocket
    /\ challengeFiles = NewChallengeFiles
    /\ store = NoStore

\* the messages a data channel delivers
Messages == {<<>>, <<1, 2>>, <<2, 1>>}

OnDataChannelReceivedMessage ==
    /\ Len(socket.receivedQueue) < MaxQueue
    /\ Len(socket.received) < MaxReceived
    /\ \E dataChannelID \in {1, 2}, message \in Messages :
           socket' = [onDataChannelReceivedMessage(socket, dataChannelID, message)
                        EXCEPT !.received = Append(@, <<dataChannelID, message>>)]
    /\ UNCHANGED acmeVars

ReadDatagram ==
    /\ \E data \in BOOLEAN, maxSize \in {1, 2}, port \in BOOLEAN :
           LET called == readDatagram(socket, data, maxSize, port)
               after == [called EXCEPT !.call.given =
                            [data |-> data, maxSize |-> maxSize, port |-> port]]
           IN  socket' = IF after.call.returned >= 0
                         THEN [after EXCEPT !.reads = @ + 1]
                         ELSE after
    /\ UNCHANGED acmeVars

WriteDatagram ==
    /\ \E length \in {1, 2}, sent \in BOOLEAN : socket' = writeDatagram(socket, length, sent)
    /\ UNCHANGED acmeVars

SetSocketOption ==
    /\ \E option \in SocketOptions : socket' = setSocketOption(socket, option)
    /\ UNCHANGED acmeVars

GetSocketOption ==
    /\ \E option \in SocketOptions : socket' = socketOption(socket, option)
    /\ UNCHANGED acmeVars

NextSocket ==
    \/ OnDataChannelReceivedMessage
    \/ ReadDatagram
    \/ WriteDatagram
    \/ SetSocketOption
    \/ GetSocketOption

SpecSocket == InitSocket /\ [][NextSocket]_vars

\* the message the failed call of op hands to setError
FailureMessage(op) ==
    CASE op = "readDatagram"    -> "Failed to read datagram"
      [] op = "writeDatagram"   -> "Failed to write datagram"
      [] op = "setSocketOption" -> "Failed to set socket option"
      [] op = "socketOption"    -> "Failed to get socket option"
      [] OTHER                  -> ""

\* C29: after a call on the socket has failed, error() returns the error
\* type and errorString() the message that the call gave to setError.
C29_ErrorAndMessageStored ==
    (socket.call.op # "none" /\ socket.call.returned = -1) =>
        /\ error(socket) \in {UnknownSocketError, UnsupportedSocketOperationError}
        /\ errorString(socket) = FailureMessage(socket.call.op)

\* a call of readDatagram has just returned
ReadReturned ==
    /\ socket'.call.op = "readDatagram"
    /\ socket'.received = socket.received
    /\ socket' # socket

\* C32: the socket hands out the messages it received in the order it got
\* them, each once: the k-th call of readDatagram that succeeds stores the
\* channel id of the k-th message received and the first min(length, maxSize)
\* bytes of it and returns that number; the queue always holds exactly the
\* messages not yet read; hasPendingDatagrams() and pendingDatagramSize()
\* tell of the oldest of them; a readDatagram on an empty queue returns -1
\* and leaves the queue as it was.
C32_ReceivedFirstInFirstOut ==
    [][LET new == socket'
           unread == SubSeq(new.received, new.reads + 1, Len(new.received))
       IN  /\ new.reads <= Len(new.received)
           /\ new.receivedQueue = unread
           /\ hasPendingDatagrams(new) <=> new.reads < Len(new.received)
           /\ pendingDatagramSize(new) =
                  IF new.reads < Len(new.received)
                  THEN Len(new.received[new.reads + 1][2])
                  ELSE -1
           /\ (ReadReturned /\ socket.reads < Len(socket.received)) =>
                  LET k == socket.reads + 1
                      message == socket.received[k][2]
                  IN  /\ new.reads = k
                      /\ new.call.returned = min(Len(message), new.call.given.maxSize)
                      /\ new.call.given.port => new.call.port = socket.received[k][1]
                      /\ new.call.given.data =>
                             new.call.data = SubSeq(message, 1, new.call.returned)
           /\ (ReadReturned /\ socket.reads = Len(socket.received)) =>
                  /\ new.call.returned = -1
                  /\ new.reads = socket.reads
                  /\ new.receivedQueue = socket.receivedQueue]_vars

\* the second of three different messages has been read, whole, while the
\* third waits
C32_Witness ==
    /\ Len(socket.received) = 3
    /\ socket.received[1] # socket.received[2]
    /\ socket.received[2] # socket.received[3]
    /\ socket.reads = 2
    /\ socket.call.op = "readDatagram"
    /\ socket.call.given.data
    /\ socket.call.given.port
    /\ socket.call.port = socket.received[2][1]
    /\ socket.call.data = socket.received[2][2]
    /\ socket.call.data # <<>>
    /\ hasPendingDatagrams(socket)

\* ------------------------------------------------ the cold start
\* an enabled client that finds no cert and no key, a CA that answers every
\* request with success and issues certificates of four ticks or of 90 days,
\* files that are written whole, and an event loop that delivers every event

ColdLifetimes == {4, 90 * Day}

\* retrieveCertificate succeeded and the files can be written
ColdCertificate(i) ==
    \E life \in ColdLifetimes : CertificateIssued(i, life, "ok", "ok", "ok")

InitCold ==
    \E k \in {Absent, 1} :
        /\ Construct(Absent, FALSE, k, TRUE, "ok")
        /\ accountKeyPath = ConfiguredAccountKeyPath
        /\ socket = NewSocket
        /\ challengeFiles = NewChallengeFiles
        /\ store = NoStore

NextCold ==
    \/ Tick
    \/ RenewalTimeout
    \/ UpdateCheckTimeout
    \/ \E i \in 1..MaxCycles :
           \/ DirectoryOk(i)
           \/ AccountOk(i)
           \/ Challenge(i)
           \/ OrderOk(i)
           \/ \E k \in 1..(MaxCycles * MaxChallenges) : GetDone(i, k)
           \/ ColdCertificate(i)

FairCold ==
    /\ WF_vars(Tick)
    /\ WF_vars(RenewalTimeout)
    /\ WF_vars(UpdateCheckTimeout)
    /\ \A i \in 1..MaxCycles :
           /\ WF_vars(DirectoryOk(i))
           /\ WF_vars(AccountOk(i))
           /\ WF_vars(OrderOk(i))
           /\ WF_vars(\E k \in 1..(MaxCycles * MaxChallenges) : GetDone(i, k))
           /\ WF_vars(ColdCertificate(i))

SpecCold == InitCold /\ [][NextCold]_vars /\ FairCold

\* the first cycle has ended as the cold start expects
ColdDone ==
    /\ Len(cycles) >= 1
    /\ cycles[1].pc = "done"
    /\ cycles[1].emits = 1
    /\ status.directory.status = "ok"
    /\ status.account.status = "ok"
    /\ status.certificate.status = "ok"
    /\ fs.cert > 0
    /\ fs.key = fs.cert
    /\ renewalTimer.active
    /\ \E armed \in 0..MaxTime :
           renewalTimer.deadline = armed + remainingTime(fs.cert, armed)

\* C19: after a cold start with a CA that always succeeds, under fairness of
\* the event loop, the first cycle eventually ends with the three statuses
\* ok, both files written, certificateUpdated emitted once and the renewal
\* timer armed for two thirds of the time left to the expiry.
C19_ColdStartEndsOk == <>ColdDone

\* ------------------------------------------------ the certificate store
\* the pair of files used on its own: one writeCertificate call, then one
\* readCertificate call, on the files a disabled client leaves alone

\* the contents a fullchain or a privkey may have
Contents == {Empty, 1, 5}

InitStore ==
    \E fullchain \in Contents, privkey \in Contents, c \in {Absent, 4}, keyToo \in BOOLEAN :
        /\ Construct(c, keyToo, Absent, FALSE, "ok")
        /\ accountKeyPath = ConfiguredAccountKeyPath
        /\ socket = NewSocket
        /\ challengeFiles = NewChallengeFiles
        /\ store = [NoStore EXCEPT !.cert = Certificate(fullchain, privkey)]

WriteCertificate ==
    /\ ~store.called
    /\ \E ioCert \in WriteIO, ioKey \in WriteIO :
           LET w == writeCertificate(store.cert, fs, ioCert, ioKey)
           IN  /\ fs' = w.files
               /\ store' = [store EXCEPT !.called = TRUE, !.ok = w.ok]
    /\ UNCHANGED <<status, renewalTimer, updateCheckTimer, expiry, challengeHandler,
                   selfCheckUrls, cycles, fileEmit, now, enabled, http, requests, crashed,
                   accountKeyPath, challengeFiles, socket>>

ReadCertificate ==
    /\ store.called
    /\ ~store.loaded
    /\ store' = [store EXCEPT !.loaded = TRUE, !.read = readCertificate(fs)]
    /\ UNCHANGED <<status, renewalTimer, updateCheckTimer, expiry, challengeHandler,
                   selfCheckUrls, fs, cycles, fileEmit, now, enabled, http, requests, crashed,
                   accountKeyPath, challengeFiles, socket>>

NextStore == WriteCertificate \/ ReadCertificate

SpecStore == InitStore /\ [][NextStore]_vars

Put == requests'.PUT = requests.PUT + 1

\* C17: a PUT on a file route whose file exists answers 409 and changes no
\* file; on a file that does not exist it answers 200 with the file holding
\* exactly the request body, or 500 with the file absent or incomplete; the
\* other files stay as they were in every case.
C17_PutNeverOverwrites ==
    [][Put =>
          LET path == http'.path
              body == http'.body
          IN  /\ http'.op = "PUT"
              /\ \A other \in Routes \ {path} : fs'[other] = fs[other]
              /\ IF exists(fs[path])
                 THEN http'.code = 409 /\ fs' = fs
                 ELSE \/ http'.code = 200 /\ fs'[path] = body
                      \/ http'.code = 500 /\ fs'[path] # body]_vars

\* a PUT on an existing file has been refused
C17_Witness ==
    /\ http.op = "PUT"
    /\ http.code = 409
    /\ exists(fs[http.path])

\* the update check has run in this step
WatcherRan == updateCheckTimer' # updateCheckTimer

\* C12: once init() has returned, and once the update check has run, an
\* enabled client whose cert and key files both exist, with a whole key and
\* a certificate that parses, reports in certificate.expiry the expiry of the
\* certificate on disk.
C12_StatusExpiryIsOnDisk ==
    [][(/\ InitStep \/ WatcherRan
        /\ enabled
        /\ ~crashed'
        /\ exists(fs'.cert)
        /\ exists(fs'.key)
        /\ readCertificate(fs').privkey > 0
        /\ getExpiryOrError(readCertificate(fs')).success)
          => status'.certificate.expiry = getExpiryOrError(readCertificate(fs')).value]_vars

\* C15: when a cycle ends in success, no file has been deleted through the
\* file routes and the account key file does not hold an empty or partial
\* upload, the account key file exists and only its owner may read and write
\* it.
C15_AccountKeyOwnerOnly ==
    [][\A i \in DOMAIN cycles :
          (/\ cycles[i].pc # "done"
           /\ cycles'[i].pc = "done"
           /\ requests'.DELETE = 0
           /\ fs'.accountKey \notin {Empty, Bad})
              => /\ exists(fs'.accountKey)
                 /\ fs'.accountKeyMode = "owner"]_vars

\* the order of cycle i has succeeded in this step: OrderCallback has read
\* selfCheckDuration() and selfCheckInterval() through challengeHandler
Ordered(i) ==
    /\ i \in DOMAIN cycles
    /\ cycles[i].pc = "order"
    /\ \/ cycles'[i].pc \in {"selfcheck", "retrieve"}
       \/ crashed'

\* C30: whenever the order step succeeds, a challenge handler exists when
\* its self-check duration and interval are read, also when the order came
\* with no challenge.
C30_HandlerExistsWhenRead ==
    [][\A i \in 1..MaxCycles : Ordered(i) => challengeHandler # NoHandler]_vars

\* init() has run in this step on a pair of files that checkExpiry hands to
\* handleRenewal
RenewalHandled ==
    /\ InitStep
    /\ enabled
    /\ exists(fs.cert)
    /\ exists(fs.key)
    /\ readCertificate(fs).privkey # Empty
    /\ getExpiryOrError(readCertificate(fs)).success

\* C23: handleRenewal records certificate.status ok and the expiry; with
\* remaining = (expiry - now) * 2 / 3, truncated toward zero, it arms the
\* renewal timer for remaining when remaining > 0 and starts no cycle, and
\* otherwise starts a cycle at once and arms no timer.
C23_RenewalArmsOrGenerates ==
    [][RenewalHandled =>
          LET n == (fs.cert - now) * 2
              remaining == IF n >= 0 THEN n \div 3 ELSE -((-n) \div 3)
          IN  /\ status'.certificate.status = "ok"
              /\ status'.certificate.expiry = fs.cert
              /\ IF remaining > 0
                 THEN /\ renewalTimer' = [active |-> TRUE, deadline |-> now + remaining]
                      /\ cycles' = cycles
                 ELSE /\ Len(cycles') = Len(cycles) + 1
                      /\ renewalTimer'.active => renewalTimer.active
                      /\ renewalTimer'.deadline = renewalTimer.deadline]_vars

\* the files as the update check wants them: both there, neither empty, a
\* certificate that parses and expires after the last known expiry
NewerOnDisk ==
    /\ exists(fs.cert)
    /\ exists(fs.key)
    /\ readCertificate(fs).fullchain # Empty
    /\ readCertificate(fs).privkey # Empty
    /\ getExpiryOrError(readCertificate(fs)).success
    /\ expiry < getExpiryOrError(readCertificate(fs)).value

\* C24: a tick of the update check emits certificateUpdated, for files it
\* has not emitted for yet, exactly when both files exist and are not empty,
\* the certificate parses and its expiry is after the last known one; it then
\* takes that expiry as the last known one, and otherwise keeps the old one;
\* it changes neither the renewal timer nor the status document.
C24_WatcherEmitsIffNewer ==
    [][WatcherRan =>
          /\ NewerOnDisk <=> ("watcher" \notin fileEmit /\ "watcher" \in fileEmit')
          /\ expiry' = IF NewerOnDisk THEN fs.cert ELSE expiry
          /\ renewalTimer' = renewalTimer
          /\ status' = status
          /\ fs' = fs]_vars

\* the update check has emitted for the files on disk and knows their expiry
C24_Witness ==
    /\ "watcher" \in fileEmit
    /\ expiry = fs.cert

\* the place of a stage in the chain of one cycle
StageRank(pc) ==
    CASE pc = "directory" -> 1
      [] pc = "account"   -> 2
      [] pc = "order"     -> 3
      [] pc = "selfcheck" -> 4
      [] pc = "retrieve"  -> 5
      [] OTHER            -> 6

StageOf(pc) ==
    CASE pc = "directory" -> "directory"
      [] pc = "account"   -> "account"
      [] OTHER            -> "certificate"

\* an ACME request of cycle i has failed in this step
AcmeFailed(i) ==
    /\ i \in DOMAIN cycles
    /\ InFlight(cycles[i])
    /\ cycles'[i].pc = "failed"
    /\ cycles[i].pc = "retrieve" => status'.certificate.error.type = "acme"

\* C22: when an ACME request of a cycle fails, the stage the cycle is in was
\* pending, it is the stage that gets the error, and the status and the
\* error of the other stages stay as they were.
C22_ErrorOnPendingStage ==
    [][\A i \in 1..MaxCycles :
          AcmeFailed(i) =>
              LET stage == StageOf(cycles[i].pc)
              IN  /\ status[stage].status = "pending"
                  /\ status'[stage].status = "error"
                  /\ \A other \in Stages \ {stage} :
                         /\ status'[other].status = status[other].status
                         /\ status'[other].error = status[other].error]_vars

\* C25: the handler that publishes a challenge of a cycle, when every other
\* cycle is over, has been made by that cycle, never by an earlier one.
C25_HandlerMadeByOwnCycle ==
    [][\A i \in DOMAIN cycles :
          (/\ cycles'[i].nchal = cycles[i].nchal + 1
           /\ \A j \in DOMAIN cycles \ {i} : ~InFlight(cycles[j]))
              => challengeHandler' = i]_vars

\* the renewal timer fires on an enabled client whose last cycle has failed,
\* with no cycle in flight and the failure still in the status document
RetryDue ==
    /\ RenewalTimeout
    /\ enabled
    /\ Len(cycles) >= 1
    /\ cycles[Len(cycles)].pc = "failed"
    /\ \A i \in DOMAIN cycles : ~InFlight(cycles[i])
    /\ \E stage \in Stages : status[stage].status = "error"

\* C26: when the retry timer fires after a failed cycle, init() starts a new
\* cycle, whatever the failure was.
C26_RetryStartsCycle ==
    [][RetryDue => Len(cycles') = Len(cycles) + 1]_vars

\* the urls of the first n challenges published in cycle i, in their order
Published(i, n) == [k \in 1..n |-> <<i, k>>]

\* the order callback of cycle i has handed the urls to its self-check
HandedOver(i) ==
    /\ i \in DOMAIN cycles /\ i \in DOMAIN cycles'
    /\ cycles[i].pc = "order"
    /\ cycles'[i].pc \in {"selfcheck", "retrieve"}
    /\ ~crashed'

\* C31: the self-check of a cycle is handed exactly the urls of the
\* challenges published in that cycle, in the order of their publication,
\* however the cycle interleaves with another generateCertificate; and
\* selfCheckUrls is empty whenever no cycle has an order outstanding.
C31_SelfCheckGetsOwnUrls ==
    [][/\ \A i \in DOMAIN cycles :
              HandedOver(i) => cycles'[i].urls = Published(i, cycles[i].nchal)
       /\ (\A i \in DOMAIN cycles' : cycles'[i].pc # "order") => selfCheckUrls' = <<>>]_vars

====
